---- MODULE Spec2Model ----
(***************************************************************************)
(* Model of src/index.js, the revision of lines 223-534: the OCR           *)
(* pipeline processPdf with its line reconstructor organizeBlocks, the     *)
(* per-page loop processPages and the PDF emitter generatePDF.             *)
(*                                                                         *)
(* Units.  Textract geometry is a fraction of the page; the model keeps    *)
(* it as an integer number of 1/10000 of the page, so Top = 0.5049 is      *)
(* 5049, the vertical threshold 0.005 is 50 and the merge gap 0.01 is      *)
(* 100.  Vertical positions on the output page are kept in 1/10000 of a    *)
(* point: yPos = Top * pageHeight is then exact integer arithmetic, the    *)
(* minimum line gap of 5 points is 50000.  Binary floating point rounding  *)
(* is not modelled.                                                        *)
(*                                                                         *)
(* A text is a sequence of tokens, so that string concatenation (+=) and   *)
(* join(" ") are visibly different: "AB" is <<"A","B">>, "A B" is          *)
(* <<"A"," ","B">>.                                                        *)
(***************************************************************************)
EXTENDS Integers, Sequences, FiniteSets, TLC

VARIABLES
    blocks,     \* organizeBlocks: the block list object the caller holds
    blocks0,    \* the block list as Textract produced it (never assigned again)
    rets,       \* the values returned by the successive organizeBlocks calls
    engineOrder,\* the order the engine's sort returns for the words of blocks
    pc,         \* processPdf: position of the async control flow
    isPdf,      \* inputKey.toLowerCase().endsWith(".pdf")
    pageCount,  \* processPages: pdfDoc.getPageCount()
    ocr,        \* Textract answer per page index (Blocks of each response)
    i,          \* loop index of processPages / generatePDF
    imageBuffers,      \* processPages: rendered page indices, in push order
    processedTextMap,  \* processPages: page index -> organized lines
    doc,        \* generatePDF: the pages of the PDFDocument, last one current
    stream,     \* generatePDF: state of the fs write stream
    listeners,  \* generatePDF: TRUE once finish/error handlers are attached
    fileState,  \* the output file on disk: "absent", "partial", "complete"
    failedStage,\* the stage whose failure ended the run, or "none"
    outcome     \* what the caller of processPdf observes

vars == <<blocks, blocks0, rets, engineOrder, pc, isPdf, pageCount, ocr, i, imageBuffers,
          processedTextMap, doc, stream, listeners, fileState, failedStage,
          outcome>>

pipeVars == <<pc, isPdf, pageCount, ocr, i, imageBuffers, processedTextMap, doc,
              stream, listeners, fileState, failedStage, outcome>>

orgVars == <<blocks, blocks0, rets, engineOrder>>

----------------------------------------------------------------------------
(* Bounds of the model *)

MaxWords == 3
MaxCalls == 2
MaxPages == 2

----------------------------------------------------------------------------
(* Constants of the program, in model units *)

threshold == 50
GroupThreshold == 50
MergeGap == 100
minimumLineGap == 50000
MinFontSize == 12
pageHeight == 792
pageWidth == 612

NoY == -1
NoLastY == -1
NoImage == -1

Abs(x) == IF x < 0 THEN -x ELSE x

Min(S) == CHOOSE x \in S : \A y \in S : x <= y

Max(S) == CHOOSE x \in S : \A y \in S : x >= y

----------------------------------------------------------------------------
(* Textract blocks.  shape says which parts of the record are present:     *)
(* "ok", "noGeometry" (no Geometry), "noBox" (Geometry without             *)
(* BoundingBox), "noText" (no Text).  The geometry fields of a record      *)
(* without geometry are never read.                                        *)

Block(type, shape, text, conf, top, left, width) ==
    [BlockType |-> type, shape |-> shape, hasText |-> shape # "noText",
     Text |-> IF shape = "noText" THEN <<>> ELSE <<text>>,
     Confidence |-> conf, Top |-> top, Left |-> left, Width |-> width,
     Height |-> 200]

Tops == {5000, 5049, 5098}

WellFormedWords ==
    UNION { { Block("WORD", "ok", "A", 99, t, 1000, 300),
              Block("WORD", "ok", "B", 72, t, 1310, 300),
              Block("WORD", "ok", "C", 95, t, 1620, 200) } : t \in Tops }

MalformedWords ==
    { Block("WORD", "noGeometry", "B", 72, 0, 0, 0),
      Block("WORD", "noBox", "B", 72, 0, 0, 0),
      Block("WORD", "noText", "B", 72, 5000, 1310, 300) }

OtherBlocks == { Block("LINE", "ok", "A", 99, 5000, 1000, 300) }

BlockDomain == WellFormedWords \cup MalformedWords \cup OtherBlocks

SeqsUpTo(S, n) == UNION { [1..k -> S] : k \in 0..n }

HasBox(b) == b.shape \notin {"noGeometry", "noBox"}

----------------------------------------------------------------------------
(* organizeBlocks, lines 271-355.  Words are object references: a word is  *)
(* the index of its record in the block list bs, so that the in-place      *)
(* update of line 307 is an update of the caller's list.                   *)

RECURSIVE FilterWords(_, _)
FilterWords(bs, k) ==
    IF k > Len(bs) THEN <<>>
    ELSE (IF bs[k].BlockType = "WORD" THEN <<k>> ELSE <<>>)
         \o FilterWords(bs, k + 1)

\* The comparator of lines 276-284.
Compare(bs, a, b) ==
    LET yDiff == bs[a].Top - bs[b].Top
    IN  IF Abs(yDiff) < threshold THEN bs[a].Left - bs[b].Left ELSE yDiff

Range(s) == { s[k] : k \in 1..Len(s) }

\* ECMAScript's "consistent comparator" on the words being sorted: the
\* order is a strict weak order.  Array.prototype.sort returns the stable
\* sorted order for such a comparator and an implementation-defined
\* order otherwise.
Consistent(bs, ws) ==
    LET S == Range(ws)
    IN  /\ \A a, b, c \in S :
              Compare(bs, a, b) < 0 /\ Compare(bs, b, c) < 0
                  => Compare(bs, a, c) < 0
        /\ \A a, b, c \in S :
              Compare(bs, a, b) = 0 /\ Compare(bs, b, c) = 0
                  => Compare(bs, a, c) = 0

RECURSIVE InsertBy(_, _, _)
InsertBy(bs, s, w) ==
    IF s = <<>> THEN <<w>>
    ELSE IF Compare(bs, s[Len(s)], w) <= 0 THEN Append(s, w)
    ELSE Append(InsertBy(bs, SubSeq(s, 1, Len(s) - 1), w), s[Len(s)])

RECURSIVE StableSort(_, _)
StableSort(bs, ws) ==
    IF ws = <<>> THEN <<>>
    ELSE InsertBy(bs, StableSort(bs, SubSeq(ws, 1, Len(ws) - 1)), ws[Len(ws)])

Perms(ws) ==
    LET n == Len(ws)
    IN  { [k \in 1..n |-> ws[p[k]]] :
            p \in { q \in [1..n -> 1..n] : \A x, y \in 1..n : q[x] = q[y] => x = y } }

\* words.sort(...) of lines 276-284: the orders the sort may return.
SortOutcomes(bs, ws) ==
    IF Consistent(bs, ws) THEN { StableSort(bs, ws) } ELSE Perms(ws)

\* A property read on undefined: the comparator or the forEach callback
\* reads Geometry.BoundingBox.Top of every WORD record (lines 277, 293).
Throws(bs) == \E k \in 1..Len(bs) : bs[k].BlockType = "WORD" /\ ~HasBox(bs[k])

\* lines 301-302
Gap(bs, lastWord, word) ==
    bs[word].Left - (bs[lastWord].Left + bs[lastWord].Width)

\* line 305
CloseEnough(bs, lastWord, word) == Gap(bs, lastWord, word) < MergeGap

\* line 307, lastWord.Text += word.Text, with JavaScript's + on undefined
AppendText(last, word) ==
    IF ~last.hasText /\ ~word.hasText
    THEN [last EXCEPT !.hasText = TRUE, !.Text = <<"NaN">>]
    ELSE [last EXCEPT !.hasText = TRUE,
            !.Text = (IF last.hasText THEN last.Text ELSE <<"undefined">>)
                     \o (IF word.hasText THEN word.Text ELSE <<"undefined">>)]

\* A variant of the test of line 298 that chains from the previous word
\* instead of the first word of the line.
SameLineCandidate_lastWord(g, word) ==
    Abs(g.bs[word].Top - g.bs[g.lastWord].Top) < GroupThreshold

\* line 298: the word is compared with currentY, the top of the first
\* word of the current line
SameLineCandidate(g, word) ==
    Abs(g.bs[word].Top - g.currentY) < GroupThreshold

\* The state of the forEach of lines 287-320.  all / groupedAll record,
\* per line, every word handled while the line was current (pushed or
\* merged), in the order handled; the code does not keep them.
GroupInit(bs) ==
    [bs |-> bs, groupedLines |-> <<>>, currentLine |-> <<>>, currentY |-> NoY,
     lastWord |-> 0, all |-> <<>>, groupedAll |-> <<>>]

\* One call of the forEach callback, lines 292-320.  A merged word returns
\* at line 308, before line 319: lastWord stays the word merged into.
GroupWord(g, word) ==
    LET wordY == g.bs[word].Top
    IN  IF g.currentY = NoY
        THEN [g EXCEPT !.currentY = wordY, !.currentLine = Append(@, word),
                       !.all = Append(@, word), !.lastWord = word]
        ELSE IF SameLineCandidate(g, word)
        THEN IF g.lastWord # 0 /\ CloseEnough(g.bs, g.lastWord, word)
             THEN [g EXCEPT !.bs[g.lastWord] = AppendText(@, g.bs[word]),
                            !.all = Append(@, word)]
             ELSE [g EXCEPT !.currentLine = Append(@, word),
                            !.all = Append(@, word), !.lastWord = word]
        ELSE [g EXCEPT !.groupedLines = IF Len(g.currentLine) > 0
                                        THEN Append(@, g.currentLine) ELSE @,
                       !.groupedAll = IF Len(g.currentLine) > 0
                                      THEN Append(@, g.all) ELSE @,
                       !.currentLine = <<word>>, !.all = <<word>>,
                       !.currentY = wordY, !.lastWord = word]

RECURSIVE GroupAll(_, _, _)
GroupAll(g, sorted, k) ==
    IF k > Len(sorted) THEN g ELSE GroupAll(GroupWord(g, sorted[k]), sorted, k + 1)

\* lines 322-324
Flush(g) ==
    IF Len(g.currentLine) > 0
    THEN [g EXCEPT !.groupedLines = Append(@, g.currentLine),
                   !.groupedAll = Append(@, g.all)]
    ELSE g

\* lineWords.map(word => word.Text).join(" "), line 330: an absent Text
\* joins as the empty string.
RECURSIVE JoinTexts(_, _, _)
JoinTexts(bs, lineWords, k) ==
    IF k > Len(lineWords) THEN <<>>
    ELSE (IF k > 1 THEN <<" ">> ELSE <<>>)
         \o (IF bs[lineWords[k]].hasText THEN bs[lineWords[k]].Text ELSE <<>>)
         \o JoinTexts(bs, lineWords, k + 1)

\* Top.toFixed(3), line 331: rounded to 1/1000 of the page
ToFixed3(top) == (top + 5) \div 10

\* line 337
LineConfidence(bs, lineWords) ==
    Min({ bs[lineWords[k]].Confidence : k \in 1..Len(lineWords) })

\* lines 335-348: the line record of one group
MakeLine(bs, lineWords) ==
    [Text |-> JoinTexts(bs, lineWords, 1),
     Confidence |-> LineConfidence(bs, lineWords),
     Top |-> bs[lineWords[1]].Top,
     Left |-> bs[lineWords[1]].Left,
     Height |-> bs[lineWords[1]].Height,
     Width |-> Max({ bs[lineWords[k]].Left + bs[lineWords[k]].Width :
                       k \in 1..Len(lineWords) }) - bs[lineWords[1]].Left]

\* lines 327-350: the Map keeps the first line of each key, in insertion
\* order.  An entry pairs the line with the words handled for it.
RECURSIVE UniqueLines(_, _, _, _, _)
UniqueLines(bs, groupedLines, groupedAll, k, acc) ==
    IF k > Len(groupedLines) THEN acc.entries
    ELSE LET line == MakeLine(bs, groupedLines[k])
             key == <<line.Text, ToFixed3(line.Top)>>
         IN  UniqueLines(bs, groupedLines, groupedAll, k + 1,
                 IF key \in acc.keys THEN acc
                 ELSE [keys |-> acc.keys \cup {key},
                       entries |-> Append(acc.entries,
                                      [line |-> line, words |-> groupedAll[k]])])

RECURSIVE InsertByTop(_, _)
InsertByTop(s, e) ==
    IF s = <<>> THEN <<e>>
    ELSE IF s[Len(s)].line.Top - e.line.Top <= 0 THEN Append(s, e)
    ELSE Append(InsertByTop(SubSeq(s, 1, Len(s) - 1), e), s[Len(s)])

RECURSIVE SortByTopRec(_)
SortByTopRec(es) ==
    IF es = <<>> THEN <<>>
    ELSE InsertByTop(SortByTopRec(SubSeq(es, 1, Len(es) - 1)), es[Len(es)])

\* A variant without the final sort: the Map's insertion order.
SortByTop_none(es) == es

\* lines 353-354: the final sort by Top (a consistent comparator)
SortByTop(es) == SortByTopRec(es)

\* organizeBlocks(blocks) for one order returned by the sort of line 276.
\* The value has the returned lines, the block list as the call leaves
\* it, and for each returned line the words handled for it.
OrganizeSorted(bs, sorted) ==
    LET g == Flush(GroupAll(GroupInit(bs), sorted, 1))
        es == SortByTop(UniqueLines(g.bs, g.groupedLines, g.groupedAll, 1,
                                    [keys |-> {}, entries |-> <<>>]))
    IN  [threw |-> FALSE,
         lines |-> [k \in 1..Len(es) |-> es[k].line],
         words |-> [k \in 1..Len(es) |-> es[k].words],
         bs |-> g.bs]

Thrown(bs) == [threw |-> TRUE, lines |-> <<>>, words |-> <<>>, bs |-> bs]

\* The set of results organizeBlocks(blocks) can have.
OrganizeOutcomes(bs) ==
    IF Throws(bs) THEN { Thrown(bs) }
    ELSE { OrganizeSorted(bs, sorted) : sorted \in SortOutcomes(bs, FilterWords(bs, 1)) }

----------------------------------------------------------------------------
(* The reconstructor on its own: a caller holding one block list calls     *)
(* organizeBlocks on it repeatedly.  The sort order depends on the         *)
(* geometry alone, which no call changes, so the engine returns the same   *)
(* order at every call: engineOrder.                                       *)

PipeIdle ==
    /\ pc = "idle"
    /\ isPdf = FALSE
    /\ pageCount = 0
    /\ ocr = <<>>
    /\ i = 0
    /\ imageBuffers = <<>>
    /\ processedTextMap = <<>>
    /\ doc = <<>>
    /\ stream = "none"
    /\ listeners = FALSE
    /\ fileState = "absent"
    /\ failedStage = "none"
    /\ outcome = "none"

OrgInit ==
    /\ blocks \in SeqsUpTo(BlockDomain, MaxWords)
    /\ blocks0 = blocks
    /\ rets = <<>>
    /\ engineOrder \in (IF Throws(blocks) THEN { <<>> }
                        ELSE SortOutcomes(blocks, FilterWords(blocks, 1)))
    /\ PipeIdle

\* Inputs on which ECMAScript fixes the result of the sort.
OrgDetInit ==
    /\ OrgInit
    /\ Throws(blocks) \/ Consistent(blocks, FilterWords(blocks, 1))

\* organizeBlocks(blocks) returns
CallReturns ==
    /\ Len(rets) < MaxCalls
    /\ ~Throws(blocks)
    /\ LET r == OrganizeSorted(blocks, engineOrder)
       IN  /\ rets' = Append(rets, r)
           /\ blocks' = r.bs
    /\ UNCHANGED <<blocks0, engineOrder, pipeVars>>

\* organizeBlocks(blocks) throws a TypeError
CallThrows ==
    /\ Len(rets) < MaxCalls
    /\ Throws(blocks)
    /\ rets' = Append(rets, Thrown(blocks))
    /\ UNCHANGED <<blocks, blocks0, engineOrder, pipeVars>>

OrgNext == CallReturns \/ CallThrows

SpecOrg == OrgInit /\ [][OrgNext]_vars

SpecOrgDet == OrgDetInit /\ [][OrgNext]_vars

\* Well-formed records only, on which ECMAScript fixes the sort.
OrgWfInit ==
    /\ OrgDetInit
    /\ \A k \in 1..Len(blocks) : blocks[k].shape = "ok"

OrgWfNext == CallReturns

SpecOrgWf == OrgWfInit /\ [][OrgWfNext]_vars

----------------------------------------------------------------------------
(* Claims about organizeBlocks *)

WordsOf(bs) == Range(FilterWords(bs, 1))

\* C3: organizeBlocks is idempotent and pure: every call on the same block
\* list returns the same lines as the first call, and the word records of
\* the list are left as they were.
C3_IdempotentPure ==
    /\ blocks = blocks0
    /\ \A k \in 1..Len(rets) : rets[k].lines = rets[1].lines

\* C4: the confidence of every returned line is the minimum confidence over
\* all the words whose text went into the line, merged fragments included.
C4_ConfidenceIsMinOfAllWords ==
    \A k \in 1..Len(rets) : \A l \in 1..Len(rets[k].lines) :
        rets[k].lines[l].Confidence =
            Min({ blocks0[w].Confidence : w \in Range(rets[k].words[l]) })

\* C5: the returned lines are non-decreasing in Top.
C5_LinesSortedByTop ==
    \A k \in 1..Len(rets) : \A l \in 1..(Len(rets[k].lines) - 1) :
        rets[k].lines[l].Top <= rets[k].lines[l + 1].Top

C5_Witness ==
    /\ Len(rets) >= 1
    /\ Len(rets[1].lines) >= 2
    /\ \E a, b \in WordsOf(blocks0) : a < b /\ blocks0[a].Top > blocks0[b].Top

WellFormed(b) == b.BlockType # "WORD" \/ (HasBox(b) /\ b.hasText)

\* C6: malformed WORD records are skipped: the call does not throw and
\* returns the lines it returns for the list without those records.
C6_MalformedSkipped ==
    Len(rets) >= 1 =>
        /\ ~rets[1].threw
        /\ rets[1].lines \in
              { r.lines : r \in OrganizeOutcomes(SelectSeq(blocks0, WellFormed)) }

\* The line of the first call that word w went into, 0 if none.
LineOf(w) ==
    IF \E l \in 1..Len(rets[1].words) : w \in Range(rets[1].words[l])
    THEN CHOOSE l \in 1..Len(rets[1].words) : w \in Range(rets[1].words[l])
    ELSE 0

\* C9 as stated: any two words go into the same line if their tops differ
\* by less than 0.005 and into different lines otherwise, whatever other
\* words are present.
C9_PairwiseGrouping ==
    (Len(rets) >= 1 /\ ~rets[1].threw) =>
        \A a, b \in WordsOf(blocks0) :
            a # b =>
                IF Abs(blocks0[a].Top - blocks0[b].Top) < GroupThreshold
                THEN LineOf(a) # 0 /\ LineOf(a) = LineOf(b)
                ELSE LineOf(a) = 0 \/ LineOf(a) # LineOf(b)

\* C9 as amended: the tolerance is measured from the first word of the
\* line.  Every word that goes into a line has a top less than 0.005 away
\* from the line's box top, and when the list has exactly two words they
\* share a line exactly when their tops differ by less than 0.005.
C9_GroupingRelativeToFirstWord ==
    (Len(rets) >= 1 /\ ~rets[1].threw) =>
        /\ \A l \in 1..Len(rets[1].lines) : \A w \in Range(rets[1].words[l]) :
              Abs(blocks0[w].Top - rets[1].lines[l].Top) < GroupThreshold
        /\ Cardinality(WordsOf(blocks0)) = 2 =>
              \A a, b \in WordsOf(blocks0) :
                  a # b =>
                      /\ LineOf(a) # 0
                      /\ LineOf(b) # 0
                      /\ (LineOf(a) = LineOf(b)) <=>
                            (Abs(blocks0[a].Top - blocks0[b].Top) < GroupThreshold)

C9_Witness ==
    /\ Len(rets) >= 1
    /\ ~rets[1].threw
    /\ Cardinality(WordsOf(blocks0)) = 3
    /\ \E a, b \in WordsOf(blocks0) :
          /\ a # b
          /\ Abs(blocks0[a].Top - blocks0[b].Top) < GroupThreshold
          /\ blocks0[a].Top # blocks0[b].Top
          /\ LineOf(a) # 0 /\ LineOf(b) # 0 /\ LineOf(a) # LineOf(b)

\* What C10 says the text of a line is: each word after the first is
\* appended without a space when its gap to the word just before it in
\* sorted order is below 0.01, and after a single space otherwise.
RECURSIVE ClaimedText(_, _, _)
ClaimedText(bs, ws, k) ==
    IF k > Len(ws) THEN <<>>
    ELSE (IF k > 1 /\ ~CloseEnough(bs, ws[k - 1], ws[k]) THEN <<" ">> ELSE <<>>)
         \o bs[ws[k]].Text \o ClaimedText(bs, ws, k + 1)

\* C10: within a line, a word is concatenated without a space exactly when
\* its gap to the word immediately before it in sorted order is below
\* 0.01, also when that word was itself merged; otherwise it is joined by
\* one space.
C10_MergeAgainstPrecedingWord ==
    (Len(rets) >= 1 /\ ~rets[1].threw) =>
        \A l \in 1..Len(rets[1].lines) :
            (\A w \in Range(rets[1].words[l]) : blocks0[w].hasText) =>
                rets[1].lines[l].Text = ClaimedText(blocks0, rets[1].words[l], 1)

----------------------------------------------------------------------------
(* generatePDF, lines 393-463: the document as the sequence of its pages,  *)
(* the last one being the current page.                                    *)

BlankPage == [image |-> NoImage, drawn |-> <<>>]

\* doc.addPage()
AddPage(d) == Append(d, BlankPage)

\* doc.image(imageBuffer, 0, 0, ...) on the current page, line 415
DrawImage(d, img) == [d EXCEPT ![Len(d)].image = img]

\* lines 426-442: one line of text; positions in 1/10000 point
DrawnLine(line, yPos) ==
    [Text |-> line.Text,
     fontSize |-> Max({ (line.Height * pageHeight * 8) \div 10, MinFontSize * 10000 }),
     xPos |-> line.Left * pageWidth,
     yPos |-> yPos,
     color |-> IF line.Confidence < 90 THEN "#666666" ELSE "#000000",
     line |-> line]

\* lines 428-433
YPos(line, lastY) ==
    LET yPos == line.Top * pageHeight
    IN  IF lastY # NoLastY /\ yPos - lastY < minimumLineGap
        THEN lastY + minimumLineGap ELSE yPos

\* processedText.forEach(...), lines 422-445, on the current page
RECURSIVE DrawLines(_, _, _, _)
DrawLines(d, processedText, k, lastY) ==
    IF k > Len(processedText) THEN d
    ELSE LET yPos == YPos(processedText[k], lastY)
         IN  DrawLines([d EXCEPT ![Len(d)].drawn =
                            Append(@, DrawnLine(processedText[k], yPos))],
                       processedText, k + 1, yPos)

\* line 418
HasText(processedText) == Len(processedText) > 0

\* A variant of the test of line 448 that also breaks after the last page.
NeedsPageBreak_offByOne(idx, n) == idx < n

\* line 448
NeedsPageBreak(idx, n) == idx < n - 1

\* lines 403-450: the body of the loop once the image metadata is known
EmitPage(d, idx, n, img, processedText) ==
    LET d1 == DrawImage(d, img)
        d2 == IF HasText(processedText)
              THEN DrawLines(AddPage(d1), processedText, 1, NoLastY)
              ELSE d1
    IN  IF NeedsPageBreak(idx, n) THEN AddPage(d2) ELSE d2

----------------------------------------------------------------------------
(* processPdf, lines 235-511.  Each action is the continuation that runs   *)
(* when one awaited promise settles, up to the next await.                 *)

BottomWords ==
    << Block("WORD", "ok", "A", 99, 9890, 1000, 300),
       Block("WORD", "ok", "B", 72, 9940, 1000, 300),
       Block("WORD", "ok", "C", 95, 9990, 1000, 300) >>

\* The Blocks a Textract response may hold for one page.
PageInputs ==
    { <<>>,
      << Block("LINE", "ok", "A", 99, 5000, 1000, 300) >>,
      << Block("WORD", "ok", "A", 99, 5000, 1000, 300) >>,
      << Block("WORD", "ok", "B", 72, 5098, 1310, 300),
         Block("WORD", "ok", "C", 95, 5000, 1620, 200) >>,
      BottomWords,
      << Block("WORD", "noGeometry", "B", 72, 0, 0, 0) >> }

PipeInit ==
    /\ pc = "fetching"
    /\ isPdf \in BOOLEAN
    /\ pageCount = 0
    /\ ocr = <<>>
    /\ i = 0
    /\ imageBuffers = <<>>
    /\ processedTextMap = <<>>
    /\ doc = <<>>
    /\ stream = "none"
    /\ listeners = FALSE
    /\ fileState = "absent"
    /\ failedStage = "none"
    /\ outcome = "none"
    /\ blocks = <<>>
    /\ blocks0 = <<>>
    /\ rets = <<>>
    /\ engineOrder = <<>>

\* The catch of lines 507-510.
Fail(stage) ==
    /\ pc' = "done"
    /\ outcome' = "failure"
    /\ failedStage' = stage

\* lines 490-493 and 500-501
FetchResolves ==
    /\ pc = "fetching"
    /\ pc' = IF isPdf THEN "loading" ELSE "analyzing"
    /\ UNCHANGED <<isPdf, pageCount, ocr, i, imageBuffers, processedTextMap,
                   doc, stream, listeners, fileState, failedStage, outcome,
                   orgVars>>

FetchRejects ==
    /\ pc = "fetching"
    /\ Fail("fetch")
    /\ UNCHANGED <<isPdf, pageCount, ocr, i, imageBuffers, processedTextMap,
                   doc, stream, listeners, fileState, orgVars>>

\* lines 373-382
LoadResolves ==
    /\ pc = "loading"
    /\ \E n \in 1..MaxPages : pageCount' = n
    /\ i' = 0
    /\ pc' = "rendering"
    /\ UNCHANGED <<isPdf, ocr, imageBuffers, processedTextMap, doc, stream,
                   listeners, fileState, failedStage, outcome, orgVars>>

LoadRejects ==
    /\ pc = "loading"
    /\ Fail("pageCount")
    /\ UNCHANGED <<isPdf, pageCount, ocr, i, imageBuffers, processedTextMap,
                   doc, stream, listeners, fileState, orgVars>>

\* lines 382-385
RenderResolves ==
    /\ pc = "rendering"
    /\ imageBuffers' = Append(imageBuffers, i)
    /\ pc' = "analyzing"
    /\ UNCHANGED <<isPdf, pageCount, ocr, i, processedTextMap, doc, stream,
                   listeners, fileState, failedStage, outcome, orgVars>>

RenderRejects ==
    /\ pc = "rendering"
    /\ Fail("render")
    /\ UNCHANGED <<isPdf, pageCount, ocr, i, imageBuffers, processedTextMap,
                   doc, stream, listeners, fileState, orgVars>>

\* lines 385-390 and 495-497 (PDF), lines 501-504 (single image), up to
\* the await of fs.mkdir at line 394
AnalyzeResolves ==
    /\ pc = "analyzing"
    /\ \E bs \in PageInputs : \E r \in OrganizeOutcomes(bs) :
          /\ ~r.threw
          /\ ocr' = Append(ocr, bs)
          /\ processedTextMap' = Append(processedTextMap, r.lines)
    /\ IF isPdf
       THEN /\ i' = i + 1
            /\ pc' = IF i + 1 < pageCount THEN "rendering" ELSE "mkdir"
            /\ UNCHANGED imageBuffers
       ELSE /\ imageBuffers' = <<0>>
            /\ pc' = "mkdir"
            /\ UNCHANGED i
    /\ UNCHANGED <<isPdf, pageCount, doc, stream, listeners, fileState,
                   failedStage, outcome, orgVars>>

\* organizeBlocks throws at line 386 or 502
ReconstructThrows ==
    /\ pc = "analyzing"
    /\ \E bs \in PageInputs :
          /\ Throws(bs)
          /\ ocr' = Append(ocr, bs)
    /\ Fail("reconstruct")
    /\ UNCHANGED <<isPdf, pageCount, i, imageBuffers, processedTextMap, doc,
                   stream, listeners, fileState, orgVars>>

AnalyzeRejects ==
    /\ pc = "analyzing"
    /\ Fail("analysis")
    /\ UNCHANGED <<isPdf, pageCount, ocr, i, imageBuffers, processedTextMap,
                   doc, stream, listeners, fileState, orgVars>>

\* lines 395-406: the document and the write stream are created, the
\* loop starts and awaits the metadata of the first image
MkdirResolves ==
    /\ pc = "mkdir"
    /\ doc' = <<BlankPage>>
    /\ stream' = "opening"
    /\ i' = 0
    /\ pc' = "metadata"
    /\ UNCHANGED <<isPdf, pageCount, ocr, imageBuffers, processedTextMap,
                   listeners, fileState, failedStage, outcome, orgVars>>

MkdirRejects ==
    /\ pc = "mkdir"
    /\ Fail("mkdir")
    /\ UNCHANGED <<isPdf, pageCount, ocr, i, imageBuffers, processedTextMap,
                   doc, stream, listeners, fileState, orgVars>>

\* lines 407-450, then either the next iteration up to line 406 or
\* lines 454-462: doc.end() and the finish / error handlers
MetadataResolves ==
    /\ pc = "metadata"
    /\ doc' = EmitPage(doc, i, Len(imageBuffers), imageBuffers[i + 1],
                       processedTextMap[i + 1])
    /\ i' = i + 1
    /\ IF i + 1 < Len(imageBuffers)
       THEN pc' = "metadata" /\ UNCHANGED listeners
       ELSE pc' = "finishing" /\ listeners' = TRUE
    /\ UNCHANGED <<isPdf, pageCount, ocr, imageBuffers, processedTextMap,
                   stream, fileState, failedStage, outcome, orgVars>>

\* sharp(imageBuffer).metadata() rejects, line 406
MetadataRejects ==
    /\ pc = "metadata"
    /\ Fail("metadata")
    /\ UNCHANGED <<isPdf, pageCount, ocr, i, imageBuffers, processedTextMap,
                   doc, stream, listeners, fileState, orgVars>>

\* The file system opens the file of line 399 while generatePDF awaits:
\* the file now exists, empty or holding what was piped so far.
StreamOpens ==
    /\ stream = "opening"
    /\ pc \in {"metadata", "finishing"}
    /\ stream' = "open"
    /\ fileState' = "partial"
    /\ UNCHANGED <<pc, isPdf, pageCount, ocr, i, imageBuffers,
                   processedTextMap, doc, listeners, failedStage, outcome,
                   orgVars>>

\* The write stream emits 'error' (the open or a write failed).  With the
\* handler of line 461 attached the promise rejects; before that the
\* event has no listener and is thrown as an uncaught exception.
StreamError ==
    /\ stream \in {"opening", "open"}
    /\ pc \in {"metadata", "finishing"}
    /\ stream' = "errored"
    /\ failedStage' = "stream"
    /\ IF listeners
       THEN pc' = "done" /\ outcome' = "failure"
       ELSE pc' = "crashed" /\ outcome' = "uncaught"
    /\ UNCHANGED <<isPdf, pageCount, ocr, i, imageBuffers, processedTextMap,
                   doc, listeners, fileState, orgVars>>

\* 'finish', lines 457-460 and 498 / 505
StreamFinishes ==
    /\ pc = "finishing"
    /\ stream = "open"
    /\ stream' = "finished"
    /\ fileState' = "complete"
    /\ pc' = "done"
    /\ outcome' = "success"
    /\ UNCHANGED <<isPdf, pageCount, ocr, i, imageBuffers, processedTextMap,
                   doc, listeners, failedStage, orgVars>>

Next ==
    \/ FetchResolves \/ FetchRejects
    \/ LoadResolves \/ LoadRejects
    \/ RenderResolves \/ RenderRejects
    \/ AnalyzeResolves \/ ReconstructThrows \/ AnalyzeRejects
    \/ MkdirResolves \/ MkdirRejects
    \/ MetadataResolves \/ MetadataRejects
    \/ StreamOpens \/ StreamError \/ StreamFinishes

Init == PipeInit

Spec == Init /\ [][Next]_vars

----------------------------------------------------------------------------
(* Claims about processPdf and generatePDF *)

\* C1: whenever a stage fails the call returns {success: false, message}
\* and nothing is raised past processPdf; success is returned only when no
\* stage failed.
C1_FailureIsReturned ==
    /\ outcome # "uncaught"
    /\ (pc \in {"done", "crashed"} /\ failedStage # "none") => outcome = "failure"
    /\ outcome = "success" => failedStage = "none"

\* C2: a run that ends in failure has created no output file, complete or
\* half-written.
C2_NoFileOnFailure ==
    outcome = "failure" => fileState = "absent"

\* C7: no line is drawn at a vertical position beyond the page height.
C7_NoLineBelowPage ==
    \A p \in 1..Len(doc) : \A k \in 1..Len(doc[p].drawn) :
        doc[p].drawn[k].yPos <= pageHeight * 10000

\* The lines organizeBlocks can return for the OCR result of page p.
LinesFor(p) == { r.lines : r \in OrganizeOutcomes(ocr[p + 1]) }

\* The position in the output of the image page of page p.
ImagePos(p) ==
    1 + p + Cardinality({ q \in 0..(p - 1) : <<>> \notin LinesFor(q) })

====
